---- MODULE Spec2Model ----
(***************************************************************************)
(* Day-planner backend, api/controllers/user.controller.ts.                *)
(*                                                                         *)
(* Three groups of handlers are modelled, each with its own specification  *)
(* over the shared state:                                                  *)
(*   SpecReg  registerUser, activateUser            (user store, mail)     *)
(*   SpecSess userLogin, logoutUser, UpdateAccessToken  (session cache)    *)
(*   SpecRem  setReminder, two invocations that may overlap  (CMS, mail)   *)
(*   FairRem  setReminder called again and again by one caller, with the   *)
(*            fairness that lets sendMail and the patch succeed            *)
(* Time is counted in minutes for the token lifetimes.                     *)
(***************************************************************************)
EXTENDS Integers, Sequences, FiniteSets, TLC

VARIABLES
    now,              \* the clock read by jwt.sign / jwt.verify and by the CMS now()
    ticks,            \* how many times the clock has advanced
    users,            \* userModel collection: sequence of documents, _id = position
    outbox,           \* activation mails handed to the mail transport
    activationTokens, \* activation tokens returned to a client by registerUser
    sessions,         \* redis: user id -> the serialized session, or Null
    refreshTokens,    \* refresh tokens handed to a client in a refresh_token cookie
    res,              \* the response of the last handler call (SpecReg, SpecSess)
    reminders,        \* CMS documents of _type "reminder": id -> fields
    sent,             \* CMS: the sent flag of each reminder
    pc,               \* per setReminder invocation: where it stands
    list,             \* per invocation: the reminders its query fetched
    idx,              \* per invocation: position of the for-loop in list
    rres,             \* the last response an invocation of setReminder sent
    mailed            \* the reminders a reminder mail has gone out for

regVars  == <<users, outbox, activationTokens>>
sessVars == <<sessions, refreshTokens>>
remVars  == <<reminders, sent, pc, list, idx, rres, mailed>>
vars == <<now, ticks, users, outbox, activationTokens, sessions, refreshTokens, res,
          reminders, sent, pc, list, idx, rres, mailed>>

----------------------------------------------------------------------------
(* Bounds of the model *)

MaxRegTicks  == 1   \* clock advances per behaviour of SpecReg
MaxSessTicks == 2   \* clock advances per behaviour of SpecSess
MaxUsers  == 2      \* documents in the user collection
MaxTokens == 2      \* activation tokens handed out

(* Lifetimes set by the program, in minutes *)
ActivationTTL == 5          \* expiresIn: '5m'
AccessTTL     == 5          \* expiresIn: "5m"
RefreshTTL    == 10080      \* expiresIn: "7d"

----------------------------------------------------------------------------
(* jsonwebtoken: a token is its payload, the secret that signed it and its *)
(* expiry.  verify accepts a token signed with the same secret whose       *)
(* expiry lies in the future, and throws otherwise.                        *)

jwtSign(payload, secret, expiresIn, t) ==
    [payload |-> payload, secret |-> secret, exp |-> t + expiresIn]

jwtVerify(token, secret, t) ==
    /\ token.secret = secret
    /\ t < token.exp

----------------------------------------------------------------------------
(* Registration and activation *)

\* request bodies of registerUser: two that pass every check, and one for each
\* way of failing one
Bodies ==
    { [name |-> "ann", email |-> "ann@x.io", password |-> "Str0ng!pw"],
      [name |-> "bob", email |-> "bob@x.io", password |-> "Str0ng!pw"],
      [name |-> "",    email |-> "ann@x.io", password |-> "Str0ng!pw"],
      [name |-> "ann", email |-> "",         password |-> "Str0ng!pw"],
      [name |-> "ann", email |-> "ann@x.io", password |-> ""],
      [name |-> "ann", email |-> "ann.x.io", password |-> "Str0ng!pw"],
      [name |-> "ann", email |-> "ann@x.io", password |-> "weakpass"] }
Codes     == {"1000", "9999"}      \* Math.floor(Math.random() * 9000 + 1000).toString()

isEmail(email) == email \in {"ann@x.io", "bob@x.io"}
isStrongPassword(password) == password = "Str0ng!pw"

NoUser  == [name |-> "", email |-> "", password |-> ""]
NoToken == [payload |-> [user |-> NoUser, activationCode |-> ""], secret |-> "", exp |-> 0]

\* userModel.findOne({email})
findOne(email) == \E i \in DOMAIN users : users[i].email = email

\* userModel.create(doc): the document is appended; its _id is its position
create(coll, doc) == Append(coll, doc)

createActivationToken(user, activationCode, t) ==
    [activationCode |-> activationCode,
     token |-> jwtSign([user |-> user, activationCode |-> activationCode],
                       "ACTIVATION_SECRET", ActivationTTL, t)]

RegRes(status, message, token) ==
    [op |-> "registerUser", status |-> status, message |-> message, activationToken |-> token]

\* registerUser as it would be if it stored the user itself, once the mail is out,
\* instead of leaving that to the activation
registerUser_creates(name, email, password, activationCode, mailOK) ==
    /\ IF name = "" \/ email = "" \/ password = ""
         THEN /\ res' = RegRes(400, "Please enter all fields", NoToken)
              /\ UNCHANGED <<users, outbox, activationTokens>>
       ELSE IF ~isEmail(email)
         THEN /\ res' = RegRes(400, "Invalid Email", NoToken)
              /\ UNCHANGED <<users, outbox, activationTokens>>
       ELSE IF ~isStrongPassword(password)
         THEN /\ res' = RegRes(400, "Password must be at least 8 characters long", NoToken)
              /\ UNCHANGED <<users, outbox, activationTokens>>
       ELSE IF findOne(email)
         THEN /\ res' = RegRes(400, "Email already exists", NoToken)
              /\ UNCHANGED <<users, outbox, activationTokens>>
       ELSE LET user == [name |-> name, email |-> email, password |-> password]
                activationToken == createActivationToken(user, activationCode, now)
            IN  IF mailOK
                  THEN /\ Cardinality(activationTokens \cup {activationToken.token}) <= MaxTokens
                       /\ Len(users) < MaxUsers
                       /\ users' = create(users, user)
                       /\ outbox' = outbox \cup {[template |-> "activateEmail.ejs",
                                                  email |-> user.email,
                                                  activationCode |-> activationToken.activationCode]}
                       /\ activationTokens' = activationTokens \cup {activationToken.token}
                       /\ res' = RegRes(201, "Activation code sent", activationToken.token)
                  ELSE /\ res' = RegRes(500, "sendMail failed", NoToken)
                       /\ UNCHANGED <<users, outbox, activationTokens>>
    /\ UNCHANGED <<now, ticks, sessVars, remVars>>

registerUser(name, email, password, activationCode, mailOK) ==
    /\ IF name = "" \/ email = "" \/ password = ""
         THEN /\ res' = RegRes(400, "Please enter all fields", NoToken)
              /\ UNCHANGED <<outbox, activationTokens>>
       ELSE IF ~isEmail(email)
         THEN /\ res' = RegRes(400, "Invalid Email", NoToken)
              /\ UNCHANGED <<outbox, activationTokens>>
       ELSE IF ~isStrongPassword(password)
         THEN /\ res' = RegRes(400, "Password must be at least 8 characters long", NoToken)
              /\ UNCHANGED <<outbox, activationTokens>>
       ELSE IF findOne(email)
         THEN /\ res' = RegRes(400, "Email already exists", NoToken)
              /\ UNCHANGED <<outbox, activationTokens>>
       ELSE LET user == [name |-> name, email |-> email, password |-> password]
                activationToken == createActivationToken(user, activationCode, now)
            IN  IF mailOK
                  THEN /\ Cardinality(activationTokens \cup {activationToken.token}) <= MaxTokens
                       /\ outbox' = outbox \cup {[template |-> "activateEmail.ejs",
                                                  email |-> user.email,
                                                  activationCode |-> activationToken.activationCode]}
                       /\ activationTokens' = activationTokens \cup {activationToken.token}
                       /\ res' = RegRes(201, "Activation code sent", activationToken.token)
                  ELSE /\ res' = RegRes(500, "sendMail failed", NoToken)
                       /\ UNCHANGED <<outbox, activationTokens>>
    /\ UNCHANGED <<now, ticks, users, sessVars, remVars>>

ActRes(status, message) ==
    [op |-> "activateUser", status |-> status, message |-> message, activationToken |-> NoToken]

\* activateUser as it would be without the comparison of the submitted code
activateUser_anyCode(activation_token, activation_code, dbOK) ==
    /\ IF ~jwtVerify(activation_token, "ACTIVATION_SECRET", now)
         THEN /\ res' = ActRes(500, "jwt error")
              /\ UNCHANGED users
       ELSE IF dbOK
         THEN /\ Len(users) < MaxUsers
              /\ users' = create(users, activation_token.payload.user)
              /\ res' = ActRes(201, "Account activated successfully")
         ELSE /\ res' = ActRes(500, "create failed")
              /\ UNCHANGED users
    /\ UNCHANGED <<now, ticks, outbox, activationTokens, sessVars, remVars>>

activateUser(activation_token, activation_code, dbOK) ==
    /\ IF ~jwtVerify(activation_token, "ACTIVATION_SECRET", now)
         THEN /\ res' = ActRes(500, "jwt error")
              /\ UNCHANGED users
       ELSE IF activation_code # activation_token.payload.activationCode
         THEN /\ res' = ActRes(400, "Invalid Activation Code")
              /\ UNCHANGED users
       ELSE IF dbOK
         THEN /\ Len(users) < MaxUsers
              /\ users' = create(users, activation_token.payload.user)
              /\ res' = ActRes(201, "Account activated successfully")
         ELSE /\ res' = ActRes(500, "create failed")
              /\ UNCHANGED users
    /\ UNCHANGED <<now, ticks, outbox, activationTokens, sessVars, remVars>>

\* A token a client can make without the server's secret
ForgedActivation ==
    jwtSign([user |-> [name |-> "mal", email |-> "mal@x.io", password |-> "Str0ng!pw"],
             activationCode |-> "1000"], "forged", ActivationTTL, now)

Tick(d, max) ==
    /\ ticks < max
    /\ now' = now + d
    /\ ticks' = ticks + 1
    /\ UNCHANGED <<regVars, sessVars, res, remVars>>

InitRem0 ==
    /\ reminders = <<>>
    /\ sent = <<>>
    /\ pc = <<>>
    /\ list = <<>>
    /\ idx = <<>>
    /\ rres = <<>>
    /\ mailed = {}

InitReg ==
    /\ now = 0
    /\ ticks = 0
    /\ users = <<>>
    /\ outbox = {}
    /\ activationTokens = {}
    /\ sessions = <<>>
    /\ refreshTokens = {}
    /\ res = [op |-> "none", status |-> 0, message |-> "", activationToken |-> NoToken]
    /\ InitRem0

NextReg ==
    \/ \E body \in Bodies, activationCode \in Codes, mailOK \in BOOLEAN :
          registerUser(body.name, body.email, body.password, activationCode, mailOK)
    \/ \E activation_token \in activationTokens \cup {ForgedActivation},
          activation_code \in Codes, dbOK \in BOOLEAN :
          activateUser(activation_token, activation_code, dbOK)
    \/ \E d \in {1, ActivationTTL} : Tick(d, MaxRegTicks)

SpecReg == InitReg /\ [][NextReg]_vars

----------------------------------------------------------------------------
(* Login, logout and token rotation over the session cache *)

LoginEmails    == {"", "ann@x.io", "bob@x.io", "eve@x.io"}
LoginPasswords == {"", "Str0ng!pw", "wrong"}

\* A cookie that is not there (undefined) or empty (""): falsy in `!refresh_token`
EmptyTok == [payload |-> [id |-> 0], secret |-> "", exp |-> 0]

\* res.cookie has not been called / has been called with a value
NotSet == <<>>
NoCookies == [access_token |-> NotSet, refresh_token |-> NotSet]

SessRes(op, status, message, cookies) ==
    [op |-> op, status |-> status, message |-> message, cookies |-> cookies]

\* JSON.stringify(user) as stored in redis; a missing key reads as null
JSONstringify(doc) == <<doc>>
Null == <<>>
\* JSON.parse(null) is null; JSON.parse of a stored session is the document
JSONparse(text) == text

redis_get(key) == IF key \in DOMAIN sessions THEN sessions[key] ELSE Null
redis_del(key) == [k \in DOMAIN sessions |-> IF k = key THEN Null ELSE sessions[k]]
redis_set(key, value) == [k \in DOMAIN sessions |-> IF k = key THEN value ELSE sessions[k]]

\* the document findOne returns, with its _id
UserDoc(i) == [_id |-> i, name |-> users[i].name, email |-> users[i].email]

comparePasswords(i, password) == users[i].password = password

\* utils/jwt sendToken(user, res): signs both tokens for user._id, stores the
\* session under user._id, sets both cookies and responds 200
sendToken(user) ==
    LET accessToken  == jwtSign([id |-> user._id], "ACCESS_TOKEN", AccessTTL, now)
        refreshToken == jwtSign([id |-> user._id], "REFRESH_TOKEN", RefreshTTL, now)
    IN  /\ sessions' = redis_set(user._id, JSONstringify(user))
        /\ refreshTokens' = refreshTokens \cup {refreshToken}
        /\ res' = SessRes("userLogin", 200, "logged in",
                          [access_token |-> <<accessToken>>, refresh_token |-> <<refreshToken>>])

userLogin(email, password, redisOK) ==
    /\ IF password = "" \/ email = ""
         THEN /\ res' = SessRes("userLogin", 400, "Please provide all the fields", NoCookies)
              /\ UNCHANGED sessVars
       ELSE IF ~findOne(email)
         THEN /\ res' = SessRes("userLogin", 400, "email or password is invalid", NoCookies)
              /\ UNCHANGED sessVars
       ELSE LET i == CHOOSE i \in DOMAIN users : users[i].email = email
            IN  IF ~comparePasswords(i, password)
                  THEN /\ res' = SessRes("userLogin", 400, "email or password is invalid", NoCookies)
                       /\ UNCHANGED sessVars
                ELSE IF redisOK
                  THEN sendToken(UserDoc(i))
                  ELSE /\ res' = SessRes("userLogin", 400, "redis error", NoCookies)
                       /\ UNCHANGED sessVars
    /\ UNCHANGED <<now, ticks, regVars, remVars>>

\* res.cookie("access_token", "", ...) and res.cookie("refresh_token", "", ...)
ClearedCookies == [access_token |-> <<EmptyTok>>, refresh_token |-> <<EmptyTok>>]

\* logoutUser as it would be if it only cleared the cookies
logoutUser_keepsSession(reqUser, redisOK) ==
    /\ res' = SessRes("logoutUser", 200, "User logged out", ClearedCookies)
    /\ UNCHANGED <<now, ticks, regVars, sessions, refreshTokens, remVars>>

\* reqUser is req.user?._id as the auth middleware left it: 0 when there is none
logoutUser(reqUser, redisOK) ==
    /\ IF reqUser # 0
         THEN IF redisOK
                THEN /\ sessions' = redis_del(reqUser)
                     /\ res' = SessRes("logoutUser", 200, "User logged out", ClearedCookies)
                ELSE /\ res' = SessRes("logoutUser", 400, "redis error", ClearedCookies)
                     /\ UNCHANGED sessions
         ELSE /\ res' = SessRes("logoutUser", 200, "User logged out", ClearedCookies)
              /\ UNCHANGED sessions
    /\ UNCHANGED <<now, ticks, regVars, refreshTokens, remVars>>

\* UpdateAccessToken as it would be if it signed for decoded.id without reading
\* the session (the userModel.findById(decoded.id) line left in a comment)
UpdateAccessToken_noSession(refresh_token, redisOK) ==
    /\ IF refresh_token = EmptyTok
         THEN /\ res' = SessRes("UpdateAccessToken", 401, "Refresh token not found", NoCookies)
              /\ UNCHANGED refreshTokens
       ELSE IF ~jwtVerify(refresh_token, "REFRESH_TOKEN", now)
         THEN /\ res' = SessRes("UpdateAccessToken", 400, "jwt error", NoCookies)
              /\ UNCHANGED refreshTokens
       ELSE LET decoded == refresh_token.payload
                accessToken  == jwtSign([id |-> decoded.id], "ACCESS_TOKEN", AccessTTL, now)
                refreshToken == jwtSign([id |-> decoded.id], "REFRESH_TOKEN", RefreshTTL, now)
            IN  /\ refreshTokens' = refreshTokens \cup {refreshToken}
                /\ res' = SessRes("UpdateAccessToken", 200, "success",
                                  [access_token |-> <<accessToken>>,
                                   refresh_token |-> <<refreshToken>>])
    /\ UNCHANGED <<now, ticks, regVars, sessions, remVars>>

\* jwt.verify returns the payload or throws, so the `if (!decoded)` branch is
\* never taken
UpdateAccessToken(refresh_token, redisOK) ==
    /\ IF refresh_token = EmptyTok
         THEN /\ res' = SessRes("UpdateAccessToken", 401, "Refresh token not found", NoCookies)
              /\ UNCHANGED refreshTokens
       ELSE IF ~jwtVerify(refresh_token, "REFRESH_TOKEN", now)
         THEN /\ res' = SessRes("UpdateAccessToken", 400, "jwt error", NoCookies)
              /\ UNCHANGED refreshTokens
       ELSE IF ~redisOK
         THEN /\ res' = SessRes("UpdateAccessToken", 400, "redis error", NoCookies)
              /\ UNCHANGED refreshTokens
       ELSE LET decoded == refresh_token.payload
                session == redis_get(decoded.id)
                user    == JSONparse(session)
            IN  IF user = Null
                  THEN \* user._id on null throws a TypeError
                       /\ res' = SessRes("UpdateAccessToken", 400, "Cannot read properties of null", NoCookies)
                       /\ UNCHANGED refreshTokens
                  ELSE LET accessToken  == jwtSign([id |-> user[1]._id], "ACCESS_TOKEN", AccessTTL, now)
                           refreshToken == jwtSign([id |-> user[1]._id], "REFRESH_TOKEN", RefreshTTL, now)
                       IN  /\ refreshTokens' = refreshTokens \cup {refreshToken}
                           /\ res' = SessRes("UpdateAccessToken", 200, "success",
                                             [access_token |-> <<accessToken>>,
                                              refresh_token |-> <<refreshToken>>])
    /\ UNCHANGED <<now, ticks, regVars, sessions, remVars>>

\* A refresh token a client can make without the server's secret
ForgedRefresh == jwtSign([id |-> 1], "forged", RefreshTTL, now)

\* What a client can put in the refresh_token cookie: nothing, a refresh token it
\* was handed, the access token it was last handed, or a forgery
CookieInputs ==
    refreshTokens \cup {EmptyTok, ForgedRefresh}
        \cup {res.cookies.access_token[i] : i \in DOMAIN res.cookies.access_token}

SessUsers ==
    << [name |-> "ann", email |-> "ann@x.io", password |-> "Str0ng!pw"],
       [name |-> "bob", email |-> "bob@x.io", password |-> "Str0ng!pw"] >>

InitSess ==
    /\ now = 0
    /\ ticks = 0
    /\ users = SessUsers
    /\ outbox = {}
    /\ activationTokens = {}
    /\ sessions = [i \in DOMAIN users |-> Null]
    /\ refreshTokens = {}
    /\ res = SessRes("none", 0, "", NoCookies)
    /\ InitRem0

NextSess ==
    \/ \E email \in LoginEmails, password \in LoginPasswords, redisOK \in BOOLEAN :
          userLogin(email, password, redisOK)
    \/ \E reqUser \in {0} \cup DOMAIN users, redisOK \in BOOLEAN :
          logoutUser(reqUser, redisOK)
    \/ \E refresh_token \in CookieInputs, redisOK \in BOOLEAN :
          UpdateAccessToken(refresh_token, redisOK)
    \/ \E d \in {1, RefreshTTL} : Tick(d, MaxSessTicks)

SpecSess == InitSess /\ [][NextSess]_vars

----------------------------------------------------------------------------
(* setReminder: the reminder scan.  Each await of the handler is a step, so *)
(* two invocations interleave where the code can be suspended: after the   *)
(* query, after sendMail, after the patch.  The event and user lookups of  *)
(* one item read collections nothing here writes, and are taken in the     *)
(* same step as the sendMail call that follows them.                       *)

NumReminders == 2      \* reminder documents in the CMS

Runs == {"A", "B"}     \* two invocations of the handler
Rids == 1..NumReminders

Events == {"ev1"}      \* _id of the documents of _type "event"

\* the reminder documents the CMS may hold: eventId._ref ("" when the reference
\* is missing), userId, reminderTime
ReminderDocs ==
    { [eventId |-> "ev1",  userId |-> 1, reminderTime |-> 0],
      [eventId |-> "ev1",  userId |-> 1, reminderTime |-> 1],
      [eventId |-> "",     userId |-> 1, reminderTime |-> 0],
      [eventId |-> "gone", userId |-> 1, reminderTime |-> 0],
      [eventId |-> "ev1",  userId |-> 2, reminderTime |-> 0] }

\* the latest reminderTime there is: the scan sees nothing new after it
LastDue == CHOOSE t \in {d.reminderTime : d \in ReminderDocs} :
              \A d \in ReminderDocs : d.reminderTime <= t

\* userModel.findById(id)
findById(id) == id \in DOMAIN users

\* the elements of a set of ids as the query returns them, in document order
RECURSIVE InOrder(_)
InOrder(S) ==
    IF S = {} THEN <<>>
    ELSE LET m == CHOOSE x \in S : \A y \in S : x <= y
         IN  <<m>> \o InOrder(S \ {m})

\* *[_type == "reminder" && sent == false && reminderTime <= now()]
query == InOrder({r \in Rids : sent[r] = FALSE /\ reminders[r].reminderTime <= now})

RemRes(status, message) == [status |-> status, message |-> message]

\* the reminder the for-loop of an invocation stands at
Cur(run) == list[run][idx[run]]

\* the loop body as it would be without its `if (!user)` check
Skipped_noUserCheck(r) ==
    \/ reminders[r].eventId = ""
    \/ reminders[r].eventId \notin Events

\* the three `continue` conditions of the loop body
Skipped(r) ==
    \/ reminders[r].eventId = ""
    \/ reminders[r].eventId \notin Events
    \/ ~findById(reminders[r].userId)

\* the handler leaves the loop body: next item, or the response after the loop
Continue(run) ==
    IF idx[run] + 1 > Len(list[run])
      THEN /\ pc' = [pc EXCEPT ![run] = "idle"]
           /\ list' = [list EXCEPT ![run] = <<>>]
           /\ idx' = [idx EXCEPT ![run] = 0]
           /\ rres' = RemRes(200, "Reminders processed successfully")
      ELSE /\ pc' = [pc EXCEPT ![run] = "loop"]
           /\ idx' = [idx EXCEPT ![run] = idx[run] + 1]
           /\ UNCHANGED <<list, rres>>

\* the outer catch: next(new ErrorHandler(error.message, 500))
Abort(run) ==
    /\ pc' = [pc EXCEPT ![run] = "idle"]
    /\ list' = [list EXCEPT ![run] = <<>>]
    /\ idx' = [idx EXCEPT ![run] = 0]
    /\ rres' = RemRes(500, "error")

remFrame == <<ticks, users, outbox, activationTokens, sessVars, res, reminders>>

\* the handler is called and its query resolves
Fetch(run) ==
    /\ pc[run] = "idle"
    /\ LET fetched == query
       IN  IF Len(fetched) = 0
             THEN /\ rres' = RemRes(200, "No reminders to send")
                  /\ UNCHANGED <<pc, list, idx>>
             ELSE /\ pc' = [pc EXCEPT ![run] = "loop"]
                  /\ list' = [list EXCEPT ![run] = fetched]
                  /\ idx' = [idx EXCEPT ![run] = 1]
                  /\ UNCHANGED rres
    /\ UNCHANGED <<now, sent, mailed, remFrame>>

\* the handler is called and its query rejects
FetchFail(run) ==
    /\ pc[run] = "idle"
    /\ Abort(run)
    /\ UNCHANGED <<now, sent, mailed, remFrame>>

\* the loop body as it would be with `return` where it says `continue`
Skip_returns(run) ==
    /\ pc[run] = "loop"
    /\ Skipped(Cur(run))
    /\ pc' = [pc EXCEPT ![run] = "idle"]
    /\ list' = [list EXCEPT ![run] = <<>>]
    /\ idx' = [idx EXCEPT ![run] = 0]
    /\ UNCHANGED <<rres, now, sent, mailed, remFrame>>

\* one of the three checks of the loop body says `continue`
Skip(run) ==
    /\ pc[run] = "loop"
    /\ Skipped(Cur(run))
    /\ Continue(run)
    /\ UNCHANGED <<now, sent, mailed, remFrame>>

\* the event query or findById rejects: outside the per-item try
ReadFail(run) ==
    /\ pc[run] = "loop"
    /\ reminders[Cur(run)].eventId # ""
    /\ Abort(run)
    /\ UNCHANGED <<now, sent, mailed, remFrame>>

\* sendMail resolves: the mail is out, the patch is issued next
MailOK(run) ==
    /\ pc[run] = "loop"
    /\ ~Skipped(Cur(run))
    /\ pc' = [pc EXCEPT ![run] = "patch"]
    /\ mailed' = mailed \cup {Cur(run)}
    /\ UNCHANGED <<now, sent, list, idx, rres, remFrame>>

\* the loop body as it would be with the patch after, not inside, the try
MailFail_marksSent(run) ==
    /\ pc[run] = "loop"
    /\ ~Skipped(Cur(run))
    /\ sent' = [sent EXCEPT ![Cur(run)] = TRUE]
    /\ Continue(run)
    /\ UNCHANGED <<now, mailed, remFrame>>

\* the loop body as it would be without the per-item try/catch
MailFail_aborts(run) ==
    /\ pc[run] = "loop"
    /\ ~Skipped(Cur(run))
    /\ Abort(run)
    /\ UNCHANGED <<now, sent, mailed, remFrame>>

\* sendMail rejects: caught by the per-item catch
MailFail(run) ==
    /\ pc[run] = "loop"
    /\ ~Skipped(Cur(run))
    /\ Continue(run)
    /\ UNCHANGED <<now, sent, mailed, remFrame>>

\* sanity.patch(reminder._id).set({sent: true}).commit() resolves
PatchOK(run) ==
    /\ pc[run] = "patch"
    /\ sent' = [sent EXCEPT ![Cur(run)] = TRUE]
    /\ Continue(run)
    /\ UNCHANGED <<now, mailed, remFrame>>

\* the patch rejects: caught by the per-item catch
PatchFail(run) ==
    /\ pc[run] = "patch"
    /\ Continue(run)
    /\ UNCHANGED <<now, sent, mailed, remFrame>>

\* the CMS clock advances; past the last reminderTime the scan sees nothing new
TickRem ==
    /\ now < LastDue
    /\ now' = now + 1
    /\ UNCHANGED <<ticks, regVars, sessVars, res, remVars>>

RemUsers == << [name |-> "ann", email |-> "ann@x.io", password |-> "Str0ng!pw"] >>

InitRem ==
    /\ now = 0
    /\ ticks = 0
    /\ users = RemUsers
    /\ outbox = {}
    /\ activationTokens = {}
    /\ sessions = [i \in DOMAIN users |-> Null]
    /\ refreshTokens = {}
    /\ res = SessRes("none", 0, "", NoCookies)
    /\ reminders \in [Rids -> ReminderDocs]
    /\ sent = [r \in Rids |-> FALSE]
    /\ pc = [run \in Runs |-> "idle"]
    /\ list = [run \in Runs |-> <<>>]
    /\ idx = [run \in Runs |-> 0]
    /\ rres = RemRes(0, "")
    /\ mailed = {}

NextRem ==
    \/ \E run \in Runs : Fetch(run)
    \/ \E run \in Runs : FetchFail(run)
    \/ \E run \in Runs : Skip(run)
    \/ \E run \in Runs : ReadFail(run)
    \/ \E run \in Runs : MailOK(run)
    \/ \E run \in Runs : MailFail(run)
    \/ \E run \in Runs : PatchOK(run)
    \/ \E run \in Runs : PatchFail(run)
    \/ TickRem

SpecRem == InitRem /\ [][NextRem]_vars

\* the lookups and sendMail of reminder r resolve in some invocation
ItemOK(r) == \E run \in Runs : (Skip(run) \/ MailOK(run)) /\ Cur(run) = r

\* the patch of reminder r resolves in some invocation
PatchedOK(r) == \E run \in Runs : PatchOK(run) /\ Cur(run) = r

\* the handler keeps being called; the lookups and sendMail, and the patch, tried
\* again and again for a reminder, each succeed at some time
Fairness ==
    /\ WF_vars(Fetch("A"))
    /\ \A r \in Rids : SF_vars(ItemOK(r)) /\ SF_vars(PatchedOK(r))

\* one caller that invokes the handler again and again
NextSeq ==
    \/ Fetch("A")
    \/ FetchFail("A")
    \/ Skip("A")
    \/ ReadFail("A")
    \/ MailOK("A")
    \/ MailFail("A")
    \/ PatchOK("A")
    \/ PatchFail("A")
    \/ TickRem

FairRem == InitRem /\ [][NextSeq]_vars /\ Fairness

----------------------------------------------------------------------------
(* Properties of registration and activation, checked under SpecReg *)

\* C5: activateUser creates a user record only when the submitted token carries
\* the activation secret's signature and is younger than 5 minutes, and the
\* submitted code equals the code in the token; a wrong code is answered 400
\* 'Invalid Activation Code', a bad or expired token 500, and both leave the
\* user store as it was.
C5_ActivateOnlyVerified ==
    [][ /\ users' # users => res'.op = "activateUser" /\ res'.status = 201
        /\ res'.op = "activateUser" =>
              \A t \in activationTokens \cup {ForgedActivation}, c \in Codes, ok \in BOOLEAN :
                 activateUser(t, c, ok) =>
                   LET genuine == t.secret = "ACTIVATION_SECRET"
                       fresh   == now - (t.exp - ActivationTTL) < ActivationTTL
                   IN  /\ users' # users =>
                             /\ genuine /\ fresh
                             /\ c = t.payload.activationCode
                             /\ users' = Append(users, t.payload.user)
                       /\ ~(genuine /\ fresh) => res'.status = 500 /\ users' = users
                       /\ genuine /\ fresh /\ c # t.payload.activationCode =>
                             /\ res'.status = 400
                             /\ res'.message = "Invalid Activation Code"
                             /\ users' = users
      ]_vars

\* a user has been created, and a later activation with the wrong code was refused
C5_Witness ==
    /\ Len(users) >= 1
    /\ res.op = "activateUser"
    /\ res.status = 400

\* C6: registerUser never writes to the user store; every user record carries the
\* name, email and password of an activation token that an earlier successful
\* registerUser returned, and was stored by activateUser; a registerUser that
\* rejects its input (400) sends no mail and returns no activation token.
C6_RegisterNeverStores ==
    [][ /\ \/ /\ users' = users
              /\ res'.status = 400 =>
                    /\ outbox' = outbox
                    /\ activationTokens' = activationTokens
                    /\ res'.activationToken = NoToken
           \/ ~ \E body \in Bodies, code \in Codes, ok \in BOOLEAN :
                   registerUser(body.name, body.email, body.password, code, ok)
        /\ \A i \in DOMAIN users' :
              i \notin DOMAIN users =>
                /\ res'.op = "activateUser"
                /\ \E t \in activationTokens : t.payload.user = users'[i]
        /\ \A i \in DOMAIN users : i \in DOMAIN users' /\ users'[i] = users[i]
      ]_vars

\* a user exists, and a registration for the same email has been rejected
C6_Witness ==
    /\ Len(users) >= 1
    /\ res.op = "registerUser"
    /\ res.status = 400
    /\ res.message = "Email already exists"
    /\ res.activationToken = NoToken

\* C9: the user store holds at most one user record per email address.
C9_OneUserPerEmail ==
    \A i, j \in DOMAIN users : users[i].email = users[j].email => i = j

----------------------------------------------------------------------------
(* Properties of the session handlers, checked under SpecSess *)

\* C3: UpdateAccessToken answers 200 and sets a new access token and a new refresh
\* token, both carrying the _id of the cached session user, only when the
\* refresh_token cookie is there, verifies against the refresh secret, and a
\* session is cached under the id in it; with no cookie it answers 401, with a
\* bad or expired token or no session under that id 400, and then it sets no
\* cookie and hands out no token.
C3_RefreshOnlyWithSession ==
    [][ \A rt \in CookieInputs, ok \in BOOLEAN :
          UpdateAccessToken(rt, ok) =>
            LET present  == rt # EmptyTok
                verifies == rt.secret = "REFRESH_TOKEN" /\ now < rt.exp
                session  == IF rt.payload.id \in DOMAIN sessions
                              THEN sessions[rt.payload.id] ELSE <<>>
                silent   == /\ res'.cookies.access_token = <<>>
                            /\ res'.cookies.refresh_token = <<>>
                            /\ refreshTokens' = refreshTokens
            IN  /\ res'.status = 200 =>
                      /\ present /\ verifies /\ session # <<>>
                      /\ res'.cookies.access_token =
                           << [payload |-> [id |-> session[1]._id],
                               secret |-> "ACCESS_TOKEN", exp |-> now + AccessTTL] >>
                      /\ res'.cookies.refresh_token =
                           << [payload |-> [id |-> session[1]._id],
                               secret |-> "REFRESH_TOKEN", exp |-> now + RefreshTTL] >>
                      /\ res'.cookies.refresh_token[1] \in refreshTokens'
                /\ ~present => res'.status = 401 /\ silent
                /\ present /\ (~verifies \/ session = <<>>) => res'.status = 400 /\ silent
                /\ res'.status # 200 => silent
      ]_vars

\* a refresh has been answered 200 for a user whose session is cached
C3_Witness ==
    /\ res.op = "UpdateAccessToken"
    /\ res.status = 200
    /\ \E u \in DOMAIN sessions :
          /\ sessions[u] # <<>>
          /\ res.cookies.refresh_token[1].payload.id = u

\* C4: a logoutUser that completes for an authenticated user id leaves no session
\* under that id; while there is none, every UpdateAccessToken presenting a
\* refresh token for that id fails and hands out nothing, unexpired token or
\* not; and a session for the id appears again only by a login of that user.
C4_LogoutEndsRefresh ==
    [][ \A u \in DOMAIN users :
          /\ \A ok \in BOOLEAN :
                logoutUser(u, ok) /\ res'.status = 200 => sessions'[u] = <<>>
          /\ sessions[u] = <<>> =>
                \A rt \in CookieInputs, ok \in BOOLEAN :
                   rt.payload.id = u /\ UpdateAccessToken(rt, ok) =>
                      /\ res'.status # 200
                      /\ res'.cookies = NoCookies
                      /\ refreshTokens' = refreshTokens
          /\ sessions[u] = <<>> /\ sessions'[u] # <<>> =>
                /\ res'.op = "userLogin"
                /\ res'.status = 200
                /\ sessions'[u][1]._id = u
      ]_vars

\* user u is logged out, holds a refresh token that has not expired, and the
\* refresh presenting it has just been refused
C4_Witness ==
    /\ res.op = "UpdateAccessToken"
    /\ res.status = 400
    /\ res.message = "Cannot read properties of null"
    /\ \E u \in DOMAIN users :
          /\ sessions[u] = <<>>
          /\ \E rt \in refreshTokens : rt.payload.id = u /\ now < rt.exp
          /\ \A v \in DOMAIN users : v # u => sessions[v] # <<>>

----------------------------------------------------------------------------
(* Properties of the reminder scan, checked under SpecRem and FairRem *)

\* the reminder has no event reference, or its event is not in the CMS, or its
\* userId is the _id of no user
Unresolvable(r) ==
    \/ reminders[r].eventId = ""
    \/ reminders[r].eventId \notin Events
    \/ reminders[r].userId \notin DOMAIN users

\* the invocation goes on to the next fetched reminder without responding, or,
\* after the last one, responds 200 'Reminders processed successfully'
MovesOn(run) ==
    IF idx[run] < Len(list[run])
      THEN /\ pc'[run] = "loop"
           /\ idx'[run] = idx[run] + 1
           /\ list'[run] = list[run]
           /\ rres' = rres
      ELSE /\ pc'[run] = "idle"
           /\ rres' = [status |-> 200, message |-> "Reminders processed successfully"]

\* C1: an invocation fetches only reminders that are unsent and due at that time,
\* mails only the reminder its loop stands at, and a reminder goes from unsent
\* to sent only by an invocation that stands past the successful sendMail for
\* that same reminder, whose mail is out.
C1_SentOnlyAfterMail ==
    [][ /\ \A run \in Runs :
              /\ pc[run] = "idle" /\ pc'[run] = "loop" =>
                    \A i \in DOMAIN list'[run] :
                       /\ sent[list'[run][i]] = FALSE
                       /\ reminders[list'[run][i]].reminderTime <= now
              /\ pc[run] # "patch" /\ pc'[run] = "patch" =>
                    /\ pc[run] = "loop"
                    /\ idx'[run] = idx[run] /\ list'[run] = list[run]
                    /\ mailed' = mailed \cup {list[run][idx[run]]}
        /\ mailed' # mailed => \E run \in Runs : pc[run] = "loop" /\ pc'[run] = "patch"
        /\ \A r \in Rids :
              sent[r] = FALSE /\ sent'[r] = TRUE =>
                 \E run \in Runs :
                    /\ pc[run] = "patch"
                    /\ list[run][idx[run]] = r
                    /\ r \in mailed
                    /\ pc'[run] # "patch"
      ]_vars

\* a reminder has been mailed and marked sent
C1_Witness == \E r \in Rids : sent[r] = TRUE /\ r \in mailed

\* C2: a sendMail or a patch that fails for one reminder does not mark it sent, and
\* the invocation goes on with the next fetched reminder, or after the last one
\* responds 200 'Reminders processed successfully'; it does not respond 500.
C2_FailureCaughtPerItem ==
    [][ \A run \in Runs :
          /\ MailFail(run) => sent' = sent /\ mailed' = mailed /\ MovesOn(run)
          /\ PatchFail(run) => sent' = sent /\ mailed' = mailed /\ MovesOn(run)
          /\ pc[run] = "loop" /\ ~Unresolvable(list[run][idx[run]]) /\ pc'[run] = "idle"
               /\ rres'.status = 200 => sent' = sent /\ mailed' = mailed
      ]_vars

\* at time 0 reminder 1, due and resolvable, has never been mailed, yet reminder 2
\* has been mailed and marked sent and the last response is the 200 after the
\* loop: the invocation that reached reminder 2 had sendMail fail on reminder 1
C2_Witness ==
    /\ now = 0
    /\ reminders[1].reminderTime = 0 /\ ~Unresolvable(1)
    /\ 1 \notin mailed
    /\ 2 \in mailed /\ sent[2] = TRUE
    /\ rres = [status |-> 200, message |-> "Reminders processed successfully"]

\* C7: a fetched reminder that is unresolvable is never mailed and never marked
\* sent, and the invocation whose lookups for it resolve goes on with the next
\* fetched reminder (or to the response after the last one).
C7_UnresolvableSkipped ==
    [][ /\ \A r \in Rids : Unresolvable(r) => r \notin mailed' /\ sent'[r] = FALSE
        /\ \A run \in Runs :
              pc[run] = "loop" /\ Unresolvable(list[run][idx[run]]) =>
                 /\ pc'[run] # "patch"
                 /\ (pc'[run] # pc[run] \/ idx'[run] # idx[run]) /\ ~ReadFail(run) =>
                       sent' = sent /\ mailed' = mailed /\ MovesOn(run)
      ]_vars

\* at time 0 reminder 1 is due and unresolvable, untouched, and reminder 2, after
\* it in every fetched list, has been mailed and marked sent
C7_Witness ==
    /\ now = 0
    /\ reminders[1].reminderTime = 0 /\ Unresolvable(1)
    /\ reminders[1].userId \notin DOMAIN users
    /\ 1 \notin mailed /\ sent[1] = FALSE
    /\ sent[2] = TRUE

\* C10: over all invocations no reminder is mailed twice: sendMail never resolves
\* for a reminder a mail has already gone out for.
C10_MailedAtMostOnce ==
    [][ \A run \in Runs : MailOK(run) => list[run][idx[run]] \notin mailed ]_vars

====
